---- MODULE Spec2Model ----
(***************************************************************************)
(* The realtime generation session layer of the NOSIS desktop client:      *)
(*   AppState (core/app_state.py)            the shared generation record  *)
(*   GRPCGenerationClient (bridge/grpc_client.py)   generate() coroutines  *)
(*   WebSocketClient (bridge/ws_client.py)   start/stop, _run, frames      *)
(*   AuthBridge (bridge/auth_bridge.py)      login, logout, _refresh_loop  *)
(* Every coroutine is modelled between its suspension points (await); one  *)
(* action is the code a coroutine runs from one await to the next.         *)
(* Progress values are tenths: 10 stands for 1.0.  Time is in seconds.     *)
(***************************************************************************)
EXTENDS Integers, FiniteSets, Sequences, TLC

\* ------------------------------------------------------------------ bounds
\* number of generate() coroutines that may exist at the same time
MaxCalls == 2
\* number of _run tasks that may exist at the same time (not yet finished)
MaxTasks == 2
\* heartbeat tasks left behind by ended connections are counted up to
\* MaxBeats, which stands for "MaxBeats or more"
MaxBeats == 1
\* number of _refresh_loop tasks that may exist at the same time
MaxLoops == 2
\* number of login() coroutines, and of logout() coroutines, in flight
MaxPending == 1
\* number of threads that may call a mutation of the Store at the same time
MaxThreads == 2

Calls == 1..MaxCalls
Tasks == 1..MaxTasks
Loops == 1..MaxLoops
Threads == 1..MaxThreads

\* ----------------------------------------------------- program constants
\* asyncio.sleep(2.0), the reconnect backoff of _run
RECONNECT_BACKOFF == 2
\* progress=1.0 of finish_generation, in tenths
PROGRESS_DONE == 10
\* progress=0.0 of start_generation, in tenths
PROGRESS_ZERO == 0

\* values a progress message may carry (tenths); 12 is out of range
FrameValues == {4, 7, 12}
\* str(exc) of an error raised while generate() consumes its stream
RpcErrors == {"rpc error"}
\* the "error" field of an error frame on the realtime channel
WsErrors == {"ws error"}
\* last_error: Optional[str]; "None" stands for None
NoError == "None"
\* values the threads pass to update_generation_progress (tenths)
ThreadValues == {4}
\* response.get("refresh_token") of a login response: absent or present
LoginRefreshTokens == {"None", "token"}

VARIABLES
    gen,               \* AppState._generation: in_progress, progress, last_error
    generationStatus,  \* history: the lifecycle transition last applied to gen
    lastOp,            \* history: the AppState generation action last applied
    grpcConnected,     \* GRPCGenerationClient._connected
    call,              \* call[c]: where the generate() coroutine c is
    outcome,           \* history: how the generate() that ended last ended
    cancelledJob,      \* history: a streaming generate() was cancelled and
                       \*   no generate() has started a job since
    lateCompleted,     \* history: a completed frame was delivered while
                       \*   cancelledJob
    running,           \* WebSocketClient._running
    task,              \* WebSocketClient._task: 0 is None, else the task id
    ws,                \* WebSocketClient._ws: 0 is None, else the task whose
                       \*   latest connection it refers to
    connOpen,          \* connOpen[t]: the latest connection of t is open
    pc,                \* pc[t]: where the _run task t is
    cancelReq,         \* cancelReq[t]: Task.cancel() was called on t and the
                       \*   CancelledError is not yet thrown into it
    timer,             \* timer[t]: seconds left of t's asyncio.sleep(2.0)
    sinceEnd,          \* history: seconds since a connection last ended,
                       \*   saturating at RECONNECT_BACKOFF
    lastEnd,           \* history: how the connection last ended
    discEvents,        \* history: backend_disconnected emitted by the
                       \*   WebSocketClient since lastEnd was set (0..2)
    attempts,          \* history: connect attempts since lastEnd was set (0..2)
    attemptGap,        \* history: sinceEnd when the last attempt started
    signal,            \* history: the generation signal emitted while the
                       \*   last message or call step was handled ("none"
                       \*   when it emitted none)
    heartbeat,         \* the _heartbeat task of the connection that is open
                       \*   exists
    leaked,            \* number of _heartbeat tasks that still exist although
                       \*   the connection they were created for has ended
                       \*   (MaxBeats: that many or more)
    lastPing,          \* history: which heartbeat last sent a ping on the
                       \*   connection _ws refers to: "own" the one created
                       \*   for it, "old" one created for an earlier one
    accessToken,       \* AuthBridge._access_token: "None", "login" (from the
                       \*   login response), "refreshed" (from a refresh)
    refreshToken,      \* AuthBridge._refresh_token: "None" or "token"
    refreshTask,       \* AuthBridge._refresh_task: 0 is None, else the id of
                       \*   a _refresh_loop task (which may have finished)
    loop,              \* loop[k]: where the _refresh_loop task k is
    loopCancel,        \* loopCancel[k]: Task.cancel() was called on k and
                       \*   the CancelledError is not yet thrown into it
    authenticated,     \* AppState._user.authenticated
    logins,            \* login() coroutines that await the backend
    logouts,           \* logout() coroutines that await the backend
    loggedOut,         \* history: user_logged_out emitted since a login
                       \*   response was last applied (0..2)
    sessionEnd,        \* history: what ended the session last: "logout",
                       \*   "refresh_failed"; "none" since a login response
                       \*   was applied
    logoutEnd,         \* history: how the logout() that ended last ended:
                       \*   "ok" (the request succeeded), "swallowed" (it
                       \*   raised and logout() went on), "raised"; "none"
                       \*   before any
    subscriberSaw,     \* history: what the slots of user_logged_out read
                       \*   when it was last emitted (they run inside emit())
    lastEvent,         \* history: the record the last generation_changed /
                       \*   state_changed event carried
    backend,           \* AppState._backend: connected
    mutex,             \* AppState._mutex: 0 is free, else the thread that
                       \*   holds it
    thr,               \* thr[h]: where thread h is in set_generation
    thrKw,             \* thrKw[h]: the keyword arguments of h's call
    thrRec             \* thrRec[h]: the record h read from _generation, and
                       \*   after its write the record it wrote

genVars == <<gen, generationStatus, lastOp, lastEvent>>
grpcVars == <<grpcConnected, call, outcome, cancelledJob, lateCompleted>>
wsVars == <<running, task, ws, connOpen, pc, cancelReq, timer>>
wsHist == <<sinceEnd, lastEnd, discEvents, attempts, attemptGap>>
hbVars == <<heartbeat, leaked, lastPing>>
threadVars == <<mutex, thr, thrKw, thrRec>>
authVars == <<accessToken, refreshToken, refreshTask, loop, loopCancel,
              authenticated, logins, logouts, loggedOut, sessionEnd,
              logoutEnd, subscriberSaw>>
vars == <<gen, generationStatus, lastOp, grpcConnected, call, outcome,
          cancelledJob, lateCompleted, running, task, ws, connOpen, pc, cancelReq, timer,
          sinceEnd, lastEnd, discEvents, attempts, attemptGap, signal,
          heartbeat, leaked, lastPing, accessToken, refreshToken, refreshTask,
          loop, loopCancel, authenticated, logins, logouts, loggedOut,
          sessionEnd, logoutEnd, subscriberSaw, lastEvent, backend, mutex,
          thr, thrKw, thrRec>>
\* everything but the AuthBridge
sessionVars == <<genVars, grpcVars, wsVars, wsHist, signal, hbVars, threadVars,
                 backend>>

\* ============================================================== AppState
\* GenerationState(): the defaults of the dataclass
GenerationState == [in_progress |-> FALSE, progress |-> PROGRESS_ZERO,
                    last_error |-> NoError]

\* set_generation(**kwargs) of each high-level action: the new record is the
\* old one with the keyword fields replaced
start_generation(g) ==
    [g EXCEPT !.in_progress = TRUE, !.progress = PROGRESS_ZERO,
              !.last_error = NoError]

update_generation_progress(g, value) ==
    [g EXCEPT !.progress = value]

\* finish_generation that forgets progress=1.0
finish_generation_keeps_progress(g) ==
    [g EXCEPT !.in_progress = FALSE]

finish_generation(g) ==
    [g EXCEPT !.in_progress = FALSE, !.progress = PROGRESS_DONE]

\* fail_generation that forgets last_error=error
fail_generation_drops_error(g, error) ==
    [g EXCEPT !.in_progress = FALSE]

fail_generation(g, error) ==
    [g EXCEPT !.in_progress = FALSE, !.last_error = error]

\* The Store applies one generation action, called from a coroutine of the
\* event loop: set_generation runs to its end (it has no await), so the
\* record is replaced and generation_changed and state_changed carry it.
\* generationStatus follows the lifecycle actions only (a progress update
\* is no lifecycle transition).
StoreStart ==
    /\ gen' = start_generation(gen)
    /\ lastEvent' = start_generation(gen)
    /\ generationStatus' = "Streaming"
    /\ lastOp' = "start"

StoreProgress(value) ==
    /\ gen' = update_generation_progress(gen, value)
    /\ lastEvent' = update_generation_progress(gen, value)
    /\ lastOp' = "progress"
    /\ UNCHANGED generationStatus

StoreFinish ==
    /\ gen' = finish_generation(gen)
    /\ lastEvent' = finish_generation(gen)
    /\ generationStatus' = "Completed"
    /\ lastOp' = IF lastOp \in {"finish", "finish2"} THEN "finish2" ELSE "finish"

StoreFail(error) ==
    /\ gen' = fail_generation(gen, error)
    /\ lastEvent' = fail_generation(gen, error)
    /\ generationStatus' = "Failed"
    /\ lastOp' = "fail"

\* ================================================== GRPCGenerationClient
\* the generate() coroutines are alike: a new call takes the first free slot
FreeCall(c) ==
    /\ call[c] = "idle"
    /\ \A d \in Calls : call[d] = "idle" => c <= d

\* generate() up to its first await: connect() returns at once when
\* _connected, else it awaits channel_ready(); then generation_started,
\* start_generation() and the first await of the stream
Generate(c) ==
    /\ FreeCall(c)
    /\ IF grpcConnected
         THEN /\ StoreStart
              /\ signal' = "started"
              /\ call' = [call EXCEPT ![c] = "streaming"]
              /\ cancelledJob' = FALSE
              /\ lateCompleted' = FALSE
         ELSE /\ call' = [call EXCEPT ![c] = "connecting"]
              /\ UNCHANGED <<genVars, signal, cancelledJob, lateCompleted>>
    /\ UNCHANGED <<grpcConnected, outcome, wsVars, wsHist, hbVars,
                   authVars, threadVars, backend>>

\* channel_ready() returns: _connected = True, then as above
ChannelReady(c) ==
    /\ call[c] = "connecting"
    /\ grpcConnected' = TRUE
    /\ StoreStart
    /\ signal' = "started"
    /\ call' = [call EXCEPT ![c] = "streaming"]
    /\ cancelledJob' = FALSE
    /\ lateCompleted' = FALSE
    /\ UNCHANGED <<outcome, wsVars, wsHist, hbVars,
                   authVars, threadVars, backend>>

\* _handle_stream_message: a progress message
StreamProgress(c, value) ==
    /\ call[c] = "streaming"
    /\ signal' = "progress"
    /\ StoreProgress(value)
    /\ UNCHANGED <<grpcVars, wsVars, wsHist, hbVars,
                   authVars, threadVars, backend>>

\* _handle_stream_message raises RuntimeError on an error message (or the
\* stream raises): except Exception: generation_failed, fail_generation, raise
StreamError(c, error) ==
    /\ call[c] = "streaming"
    /\ signal' = "failed"
    /\ StoreFail(error)
    /\ call' = [call EXCEPT ![c] = "idle"]
    /\ outcome' = "raised"
    /\ UNCHANGED <<grpcConnected, cancelledJob, lateCompleted, wsVars, wsHist,
                   hbVars,
                   authVars, threadVars, backend>>

\* the stream ends: generation_finished, finish_generation, return result
StreamEnd(c) ==
    /\ call[c] = "streaming"
    /\ signal' = "finished"
    /\ StoreFinish
    /\ call' = [call EXCEPT ![c] = "idle"]
    /\ outcome' = "returned"
    /\ UNCHANGED <<grpcConnected, cancelledJob, lateCompleted, wsVars, wsHist,
                   hbVars,
                   authVars, threadVars, backend>>

\* generate() with the CancelledError handled by except Exception, like any
\* other error
CancelGenerateAsFailure(c) ==
    /\ call[c] \in {"connecting", "streaming"}
    /\ call' = [call EXCEPT ![c] = "idle"]
    /\ outcome' = "raised"
    /\ signal' = "failed"
    /\ StoreFail("CancelledError")
    /\ UNCHANGED <<grpcConnected, cancelledJob, lateCompleted, wsVars, wsHist,
                   hbVars,
                   authVars, threadVars, backend>>

\* the caller cancels the task running generate().  In connect() the
\* CancelledError leaves generate() outside its try; in the stream it is
\* caught: generation_cancelled is emitted and the error re-raised.  The
\* Store is not touched on either path.
CancelGenerate(c) ==
    /\ call[c] \in {"connecting", "streaming"}
    /\ call' = [call EXCEPT ![c] = "idle"]
    /\ outcome' = "cancelled"
    /\ signal' = IF call[c] = "streaming" THEN "cancelled" ELSE signal
    /\ cancelledJob' = IF call[c] = "streaming" THEN TRUE ELSE cancelledJob
    /\ UNCHANGED <<genVars, grpcConnected, lateCompleted, wsVars, wsHist,
                   hbVars,
                   authVars, threadVars, backend>>

\* ======================================================= WebSocketClient
Min(a, b) == IF a < b THEN a ELSE b

\* a _run task that exists and has not finished
Alive(t) == pc[t] \notin {"none", "done"}

\* a _run task that still runs its loop: alive, and no cancellation pending
Active(t) == Alive(t) /\ ~cancelReq[t]

\* start() without its "if self._running: return"
StartUnguarded ==
    /\ \E t \in Tasks :
         /\ pc[t] \in {"none", "done"}
         /\ \A u \in Tasks : pc[u] \in {"none", "done"} => t <= u
         /\ running' = TRUE
         /\ task' = t
         /\ pc' = [pc EXCEPT ![t] = "created"]
    /\ UNCHANGED <<gen, generationStatus, lastOp, lastEvent, grpcConnected, call,
                   outcome, cancelledJob, lateCompleted, ws, connOpen, cancelReq, timer,
                   sinceEnd, lastEnd, discEvents, attempts, attemptGap, signal,
                   heartbeat, leaked, lastPing,
                   authVars, threadVars, backend>>

\* start(): returns at once when _running; else sets _running and creates
\* the task (a finished task's slot is used again)
Start ==
    /\ ~running
    /\ \E t \in Tasks :
         /\ ~Alive(t)
         /\ \A u \in Tasks : ~Alive(u) => t <= u
         /\ running' = TRUE
         /\ task' = t
         /\ pc' = [pc EXCEPT ![t] = "created"]
    /\ UNCHANGED <<genVars, grpcVars, signal, ws, connOpen, cancelReq, timer,
                   wsHist, hbVars,
                   authVars, threadVars, backend>>

\* stop(): _running = False; _task.cancel() when _task; _ws.close() when
\* _ws.  Nothing is emitted, and the heartbeat task is not cancelled.
Stop ==
    /\ running' = FALSE
    /\ heartbeat' = FALSE
    /\ leaked' = IF heartbeat THEN Min(leaked + 1, MaxBeats) ELSE leaked
    /\ cancelReq' = IF task # 0 /\ Alive(task)
                      THEN [cancelReq EXCEPT ![task] = TRUE]
                      ELSE cancelReq
    /\ connOpen' = IF ws # 0 THEN [connOpen EXCEPT ![ws] = FALSE] ELSE connOpen
    /\ lastEnd' = "stop"
    /\ discEvents' = 0
    /\ attempts' = 0
    /\ sinceEnd' = 0
    /\ UNCHANGED <<genVars, grpcVars, signal, task, ws, pc, timer, attemptGap,
                   lastPing,
                   authVars, threadVars, backend>>

\* the head of the loop of _run, reached after an await returned:
\* while self._running: ... websockets.connect(url) is awaited; else the
\* task returns
NextIteration(t) ==
    IF running
      THEN /\ pc' = [pc EXCEPT ![t] = "connecting"]
           /\ attempts' = Min(attempts + 1, 2)
           /\ attemptGap' = sinceEnd
      ELSE /\ pc' = [pc EXCEPT ![t] = "done"]
           /\ UNCHANGED <<attempts, attemptGap>>

\* the handler without its sleep: the next attempt starts at once
OnExceptionNoSleep(t, kind) ==
    /\ pc' = [pc EXCEPT ![t] = "backoff"]
    /\ timer' = [timer EXCEPT ![t] = 0]
    /\ lastEnd' = kind
    /\ discEvents' = 1
    /\ attempts' = 0
    /\ sinceEnd' = 0

\* except Exception: warning, backend_disconnected.emit(), then
\* await asyncio.sleep(2.0)
OnException(t, kind) ==
    /\ pc' = [pc EXCEPT ![t] = "backoff"]
    /\ timer' = [timer EXCEPT ![t] = RECONNECT_BACKOFF]
    /\ lastEnd' = kind
    /\ discEvents' = 1
    /\ attempts' = 0
    /\ sinceEnd' = 0

\* the first step of a new _run task
TaskStart(t) ==
    /\ pc[t] = "created"
    /\ ~cancelReq[t]
    /\ NextIteration(t)
    /\ UNCHANGED <<genVars, grpcVars, signal, running, task, ws, connOpen,
                   cancelReq, timer, sinceEnd, lastEnd, discEvents, hbVars,
                   authVars, threadVars, backend>>

\* websockets.connect() succeeds: self._ws = ws, backend_connected.emit(),
\* the heartbeat task is created, the read loop awaits the first frame
ConnectOk(t) ==
    /\ pc[t] = "connecting"
    /\ ~cancelReq[t]
    /\ pc' = [pc EXCEPT ![t] = "connected"]
    /\ ws' = t
    /\ connOpen' = [connOpen EXCEPT ![t] = TRUE]
    /\ heartbeat' = TRUE
    /\ lastPing' = "none"
    /\ UNCHANGED <<genVars, grpcVars, signal, running, task, cancelReq, timer,
                   wsHist, leaked,
                   authVars, threadVars, backend>>

\* websockets.connect() raises
ConnectFail(t) ==
    /\ pc[t] = "connecting"
    /\ ~cancelReq[t]
    /\ OnException(t, "connectfail")
    /\ UNCHANGED <<genVars, grpcVars, signal, running, task, ws, connOpen,
                   cancelReq, attemptGap, hbVars,
                   authVars, threadVars, backend>>

\* a read failure that is reported as a failure of the generation
ReadFailFailsGeneration(t) ==
    /\ pc[t] = "connected"
    /\ ~cancelReq[t]
    /\ OnException(t, "readfail")
    /\ connOpen' = [connOpen EXCEPT ![t] = FALSE]
    /\ heartbeat' = FALSE
    /\ leaked' = IF heartbeat THEN Min(leaked + 1, MaxBeats) ELSE leaked
    /\ signal' = "failed"
    /\ StoreFail("connection lost")
    /\ UNCHANGED <<grpcVars, running, task, ws, cancelReq, attemptGap, lastPing,
                   authVars, threadVars, backend>>

\* the read loop raises (the connection dropped): the async with block is
\* left through the exception, heartbeat.cancel() is skipped
ReadFail(t) ==
    /\ pc[t] = "connected"
    /\ ~cancelReq[t]
    /\ OnException(t, "readfail")
    /\ connOpen' = [connOpen EXCEPT ![t] = FALSE]
    /\ heartbeat' = FALSE
    /\ leaked' = IF heartbeat THEN Min(leaked + 1, MaxBeats) ELSE leaked
    /\ UNCHANGED <<genVars, grpcVars, signal, running, task, ws, cancelReq,
                   attemptGap, lastPing,
                   authVars, threadVars, backend>>

\* _handle_message raises before it touches the Store (float() of a value
\* that is no number, .get on JSON that is no object)
HandlerFail(t) ==
    /\ pc[t] = "connected"
    /\ ~cancelReq[t]
    /\ OnException(t, "handlerfail")
    /\ connOpen' = [connOpen EXCEPT ![t] = FALSE]
    /\ heartbeat' = FALSE
    /\ leaked' = IF heartbeat THEN Min(leaked + 1, MaxBeats) ELSE leaked
    /\ UNCHANGED <<genVars, grpcVars, signal, running, task, ws, cancelReq,
                   attemptGap, lastPing,
                   authVars, threadVars, backend>>

\* the server closes the socket: the async for ends normally,
\* heartbeat.cancel(), the async with block awaits the close
ServerClose(t) ==
    /\ pc[t] = "connected"
    /\ ~cancelReq[t]
    /\ pc' = [pc EXCEPT ![t] = "closing"]
    /\ connOpen' = [connOpen EXCEPT ![t] = FALSE]
    /\ lastEnd' = "close"
    /\ discEvents' = 0
    /\ attempts' = 0
    /\ sinceEnd' = 0
    /\ heartbeat' = FALSE
    /\ UNCHANGED <<genVars, grpcVars, signal, running, task, ws, cancelReq,
                   timer, attemptGap, leaked, lastPing,
                   authVars, threadVars, backend>>

\* the close is done: back to the head of the loop
CloseDone(t) ==
    /\ pc[t] = "closing"
    /\ ~cancelReq[t]
    /\ NextIteration(t)
    /\ UNCHANGED <<genVars, grpcVars, signal, running, task, ws, connOpen,
                   cancelReq, timer, sinceEnd, lastEnd, discEvents, hbVars,
                   authVars, threadVars, backend>>

\* a _run that gives up after the backoff: the task returns
BackoffDoneGivesUp(t) ==
    /\ pc[t] = "backoff"
    /\ ~cancelReq[t]
    /\ timer[t] = 0
    /\ pc' = [pc EXCEPT ![t] = "done"]
    /\ UNCHANGED <<genVars, grpcVars, signal, running, task, ws, connOpen,
                   cancelReq, timer, wsHist, hbVars, authVars, threadVars,
                   backend>>

\* asyncio.sleep(2.0) returns: back to the head of the loop
BackoffDone(t) ==
    /\ pc[t] = "backoff"
    /\ ~cancelReq[t]
    /\ timer[t] = 0
    /\ NextIteration(t)
    /\ UNCHANGED <<genVars, grpcVars, signal, running, task, ws, connOpen,
                   cancelReq, timer, sinceEnd, lastEnd, discEvents, hbVars,
                   authVars, threadVars, backend>>

\* the CancelledError of stop() is thrown into the task at its await:
\* except asyncio.CancelledError: break (from the sleep of the handler it
\* leaves _run uncaught); an open connection is closed by the async with
TaskCancelled(t) ==
    /\ cancelReq[t]
    /\ pc' = [pc EXCEPT ![t] = "done"]
    /\ cancelReq' = [cancelReq EXCEPT ![t] = FALSE]
    /\ connOpen' = [connOpen EXCEPT ![t] = FALSE]
    /\ UNCHANGED <<genVars, grpcVars, signal, running, task, ws, timer, wsHist,
                   hbVars,
                   authVars, threadVars, backend>>

\* _handle_message: a progress frame
WsProgress(t, value) ==
    /\ pc[t] = "connected"
    /\ ~cancelReq[t]
    /\ signal' = "progress"
    /\ StoreProgress(value)
    /\ UNCHANGED <<grpcVars, wsVars, wsHist, hbVars,
                   authVars, threadVars, backend>>

\* _handle_message: an error frame
WsError(t, error) ==
    /\ pc[t] = "connected"
    /\ ~cancelReq[t]
    /\ signal' = "failed"
    /\ StoreFail(error)
    /\ UNCHANGED <<grpcVars, wsVars, wsHist, hbVars,
                   authVars, threadVars, backend>>

\* _handle_message: a completed frame
WsCompleted(t) ==
    /\ pc[t] = "connected"
    /\ ~cancelReq[t]
    /\ signal' = "finished"
    /\ StoreFinish
    /\ lateCompleted' = (cancelledJob \/ lateCompleted)
    /\ UNCHANGED <<grpcConnected, call, outcome, cancelledJob, wsVars, wsHist,
                   hbVars,
                   authVars, threadVars, backend>>

\* _handle_message: text that is no JSON: json.loads raises JSONDecodeError,
\* a warning is logged and the frame is dropped
WsInvalidJson(t) ==
    /\ pc[t] = "connected"
    /\ ~cancelReq[t]
    /\ signal' = "none"
    /\ UNCHANGED <<genVars, grpcVars, wsVars, wsHist, hbVars,
                   authVars, threadVars, backend>>

\* a step of the heartbeat task of the open connection (its first step, or
\* asyncio.sleep(HEARTBEAT_INTERVAL) returns): while self._running and
\* self._ws: send a ping on self._ws and sleep again; a send that raises
\* ends the task
Heartbeat ==
    /\ heartbeat
    /\ IF running /\ ws # 0 /\ connOpen[ws]
         THEN /\ lastPing' = "own"
              /\ UNCHANGED heartbeat
         ELSE /\ heartbeat' = FALSE
              /\ UNCHANGED lastPing
    /\ UNCHANGED <<genVars, grpcVars, signal, wsVars, wsHist, leaked,
                   authVars, threadVars, backend>>

\* the same step of a heartbeat task left behind by an ended connection: it
\* reads self._running and self._ws as they are now, so it pings the
\* connection that is open now, whichever it is; when it ends and the
\* count stands for "MaxBeats or more", others may remain
LeakedHeartbeat ==
    /\ leaked > 0
    /\ IF running /\ ws # 0 /\ connOpen[ws]
         THEN /\ lastPing' = "old"
              /\ UNCHANGED leaked
         ELSE /\ leaked' \in IF leaked = MaxBeats
                                THEN {MaxBeats - 1, MaxBeats}
                                ELSE {leaked - 1}
              /\ UNCHANGED lastPing
    /\ UNCHANGED <<genVars, grpcVars, signal, wsVars, wsHist, heartbeat,
                   authVars, threadVars, backend>>

\* one second passes
Tick ==
    /\ \/ sinceEnd < RECONNECT_BACKOFF
       \/ \E t \in Tasks : timer[t] > 0
    /\ timer' = [t \in Tasks |-> IF timer[t] > 0 THEN timer[t] - 1 ELSE 0]
    /\ sinceEnd' = Min(sinceEnd + 1, RECONNECT_BACKOFF)
    /\ UNCHANGED <<genVars, grpcVars, signal, running, task, ws, connOpen, pc,
                   cancelReq, lastEnd, discEvents, attempts, attemptGap,
                   hbVars,
                   authVars, threadVars, backend>>

\* ================================================= AppState under threads
\* BackendState(): the defaults of the dataclass
BackendState == [connected |-> FALSE]

\* the keyword arguments of the high-level actions: set names the fields
\* that are given (the other fields of the record are fillers)
KwNone ==
    [op |-> "none", set |-> {}, in_progress |-> FALSE,
     progress |-> PROGRESS_ZERO, last_error |-> NoError]
KwStart ==
    [op |-> "start", set |-> {"in_progress", "progress", "last_error"},
     in_progress |-> TRUE, progress |-> PROGRESS_ZERO, last_error |-> NoError]
KwProgress(value) ==
    [op |-> "progress", set |-> {"progress"}, in_progress |-> FALSE,
     progress |-> value, last_error |-> NoError]
KwFinish ==
    [op |-> "finish", set |-> {"in_progress", "progress"},
     in_progress |-> FALSE, progress |-> PROGRESS_DONE, last_error |-> NoError]
KwFail(error) ==
    [op |-> "fail", set |-> {"in_progress", "last_error"},
     in_progress |-> FALSE, progress |-> PROGRESS_ZERO, last_error |-> error]

\* the calls a thread may make
ThreadCalls ==
    {KwStart, KwFinish} \cup {KwProgress(v) : v \in ThreadValues}
      \cup {KwFail(e) : e \in WsErrors}

\* GenerationState(**{**self._generation.__dict__, **kwargs}): the fields
\* given replace those of the record that was read
Merge(g, kw) ==
    [in_progress |-> IF "in_progress" \in kw.set THEN kw.in_progress
                                                  ELSE g.in_progress,
     progress |-> IF "progress" \in kw.set THEN kw.progress ELSE g.progress,
     last_error |-> IF "last_error" \in kw.set THEN kw.last_error
                                                ELSE g.last_error]

\* a thread calls a high-level action of the Store: set_generation(**kwargs)
\* waits for the mutex
Call(h, kw) ==
    /\ thr[h] = "idle"
    /\ thr' = [thr EXCEPT ![h] = "lock"]
    /\ thrKw' = [thrKw EXCEPT ![h] = kw]
    /\ UNCHANGED <<genVars, grpcVars, wsVars, wsHist, signal, hbVars, authVars,
                   backend, mutex, thrRec>>

\* set_generation without the QMutexLocker
AcquireNoMutex(h) ==
    /\ thr[h] = "lock"
    /\ thr' = [thr EXCEPT ![h] = "write"]
    /\ thrRec' = [thrRec EXCEPT ![h] = gen]
    /\ UNCHANGED <<genVars, grpcVars, wsVars, wsHist, signal, hbVars, authVars,
                   backend, mutex, thrKw>>

\* QMutexLocker(self._mutex) gets the mutex, and self._generation.__dict__
\* is read
Acquire(h) ==
    /\ thr[h] = "lock"
    /\ mutex = 0
    /\ mutex' = h
    /\ thr' = [thr EXCEPT ![h] = "write"]
    /\ thrRec' = [thrRec EXCEPT ![h] = gen]
    /\ UNCHANGED <<genVars, grpcVars, wsVars, wsHist, signal, hbVars, authVars,
                   backend, thrKw>>

\* self._generation = GenerationState(...) and the with block ends: the
\* mutex is free again
Write(h) ==
    /\ thr[h] = "write"
    /\ gen' = Merge(thrRec[h], thrKw[h])
    /\ thrRec' = [thrRec EXCEPT ![h] = Merge(thrRec[h], thrKw[h])]
    /\ generationStatus' = CASE thrKw[h].op = "start" -> "Streaming"
                             [] thrKw[h].op = "finish" -> "Completed"
                             [] thrKw[h].op = "fail" -> "Failed"
                             [] OTHER -> generationStatus
    /\ lastOp' = IF thrKw[h].op = "finish" /\ lastOp \in {"finish", "finish2"}
                   THEN "finish2"
                   ELSE thrKw[h].op
    /\ mutex' = IF mutex = h THEN 0 ELSE mutex
    /\ thr' = [thr EXCEPT ![h] = "emit"]
    /\ UNCHANGED <<lastEvent, grpcVars, wsVars, wsHist, signal, hbVars,
                   authVars, backend, thrKw>>

\* self.generation_changed.emit(self._generation), outside the with block:
\* the event carries what _generation is now
EmitChanged(h) ==
    /\ thr[h] = "emit"
    /\ lastEvent' = gen
    /\ thr' = [thr EXCEPT ![h] = "emit2"]
    /\ UNCHANGED <<gen, generationStatus, lastOp, grpcVars, wsVars, wsHist,
                   signal, hbVars, authVars, backend, mutex, thrKw, thrRec>>

\* self.state_changed.emit("generation", self._generation), and the call
\* returns
EmitState(h) ==
    /\ thr[h] = "emit2"
    /\ lastEvent' = gen
    /\ thr' = [thr EXCEPT ![h] = "idle"]
    /\ thrKw' = [thrKw EXCEPT ![h] = KwNone]
    /\ thrRec' = [thrRec EXCEPT ![h] = GenerationState]
    /\ UNCHANGED <<gen, generationStatus, lastOp, grpcVars, wsVars, wsHist,
                   signal, hbVars, authVars, backend, mutex>>

\* ============================================================ AuthBridge
\* a _refresh_loop task that exists and has not finished
LoopAlive(k) == loop[k] \in {"sleeping", "exchanging"}

\* what a reader of the AuthBridge and of AppState.user sees
AuthSnapshot == [authenticated |-> authenticated,
                 access_token |-> accessToken,
                 refresh_token |-> refreshToken]

\* the session of nobody: UserState() and no tokens
SignedOut == [authenticated |-> FALSE, access_token |-> "None",
              refresh_token |-> "None"]

\* a _refresh_loop task that still runs: alive, and no cancellation pending
LoopActive(k) == LoopAlive(k) /\ ~loopCancel[k]

\* _clear_auth_state without the cancel of the refresh task
ClearAuthStateNoCancel(self) ==
    /\ accessToken' = "None"
    /\ refreshToken' = "None"
    /\ loopCancel' = loopCancel
    /\ refreshTask' = 0
    /\ authenticated' = FALSE

\* _clear_auth_state(), called by logout() (self = 0) or by the refresh
\* task `self`: both tokens None; the task _refresh_task names is cancelled
\* (a cancel of the task that is running it takes effect when that task
\* ends, which it does at once) and forgotten; set_user(authenticated=False)
ClearAuthState(self) ==
    /\ accessToken' = "None"
    /\ refreshToken' = "None"
    /\ loopCancel' = [k \in Loops |->
                        IF k = refreshTask /\ k # self /\ LoopAlive(k)
                          THEN TRUE
                          ELSE loopCancel[k]]
    /\ refreshTask' = 0
    /\ authenticated' = FALSE

\* login() up to its await of POST /auth/login
Login ==
    /\ logins < MaxPending
    /\ logins' = logins + 1
    /\ UNCHANGED <<sessionVars, logoutEnd, subscriberSaw, accessToken,
                   refreshToken, refreshTask, loop, loopCancel,
                   authenticated, logouts, loggedOut, sessionEnd>>

\* the login response arrives: _apply_auth_response sets both tokens from
\* the response, set_user(authenticated=True), and
\* _start_token_refresh_loop creates the task unless _refresh_task is set;
\* then user_logged_in is emitted
LoginOk(rt) ==
    /\ logins > 0
    /\ refreshTask = 0 => \E k \in Loops : ~LoopAlive(k)
    /\ logins' = logins - 1
    /\ accessToken' = "login"
    /\ refreshToken' = rt
    /\ authenticated' = TRUE
    /\ IF refreshTask # 0
         THEN UNCHANGED <<refreshTask, loop>>
         ELSE \E k \in Loops :
                /\ ~LoopAlive(k)
                /\ \A j \in Loops : ~LoopAlive(j) => k <= j
                /\ refreshTask' = k
                /\ loop' = [loop EXCEPT ![k] = "sleeping"]
    /\ loggedOut' = 0
    /\ sessionEnd' = "none"
    /\ UNCHANGED <<sessionVars, logoutEnd, subscriberSaw, loopCancel,
                   logouts>>

\* the login request raises: login() raises, nothing is applied
LoginFail ==
    /\ logins > 0
    /\ logins' = logins - 1
    /\ UNCHANGED <<sessionVars, logoutEnd, subscriberSaw, accessToken,
                   refreshToken, refreshTask, loop, loopCancel,
                   authenticated, logouts, loggedOut, sessionEnd>>

\* logout() up to its await of POST /auth/logout
Logout ==
    /\ logouts < MaxPending
    /\ logouts' = logouts + 1
    /\ UNCHANGED <<sessionVars, logoutEnd, subscriberSaw, accessToken,
                   refreshToken, refreshTask, loop, loopCancel,
                   authenticated, logins, loggedOut, sessionEnd>>

\* a logout() without its try / except around the request
LogoutDonePropagates(ok) ==
    /\ logouts > 0
    /\ logouts' = logouts - 1
    /\ IF ok
         THEN /\ ClearAuthState(0)
              /\ loggedOut' = Min(loggedOut + 1, 2)
              /\ subscriberSaw' = AuthSnapshot'
              /\ sessionEnd' = "logout"
              /\ logoutEnd' = "ok"
         ELSE /\ logoutEnd' = "raised"
              /\ UNCHANGED <<accessToken, refreshToken, refreshTask,
                             loopCancel, authenticated, loggedOut,
                             subscriberSaw, sessionEnd>>
    /\ UNCHANGED <<sessionVars, loop, logins>>

\* the logout request returns (ok) or raises (except Exception: pass):
\* _clear_auth_state(), then user_logged_out is emitted and logout() returns
LogoutDone(ok) ==
    /\ logouts > 0
    /\ logouts' = logouts - 1
    /\ ClearAuthState(0)
    /\ loggedOut' = Min(loggedOut + 1, 2)
    /\ subscriberSaw' = AuthSnapshot'
    /\ sessionEnd' = "logout"
    /\ logoutEnd' = IF ok THEN "ok" ELSE "swallowed"
    /\ UNCHANGED <<sessionVars, loop, logins>>

\* the refresh loop without its "if not self._refresh_token: return"
LoopWakeNoCheck(k) ==
    /\ loop[k] = "sleeping"
    /\ ~loopCancel[k]
    /\ loop' = [loop EXCEPT ![k] = "exchanging"]
    /\ UNCHANGED <<sessionVars, logoutEnd, subscriberSaw, accessToken,
                   refreshToken, refreshTask, loopCancel, authenticated,
                   logins, logouts, loggedOut, sessionEnd>>

\* asyncio.sleep(60 * 10) returns: the task returns when there is no
\* refresh token (_refresh_task keeps naming it), else it sends
\* POST /auth/refresh and awaits the response
LoopWake(k) ==
    /\ loop[k] = "sleeping"
    /\ ~loopCancel[k]
    /\ loop' = [loop EXCEPT ![k] = IF refreshToken = "None"
                                     THEN "done"
                                     ELSE "exchanging"]
    /\ UNCHANGED <<sessionVars, logoutEnd, subscriberSaw, accessToken,
                   refreshToken, refreshTask, loopCancel, authenticated,
                   logins, logouts, loggedOut, sessionEnd>>

\* the refresh response arrives: the access token is replaced and the task
\* sleeps again
RefreshOk(k) ==
    /\ loop[k] = "exchanging"
    /\ ~loopCancel[k]
    /\ accessToken' = "refreshed"
    /\ loop' = [loop EXCEPT ![k] = "sleeping"]
    /\ UNCHANGED <<sessionVars, logoutEnd, subscriberSaw, refreshToken,
                   refreshTask, loopCancel, authenticated, logins, logouts,
                   loggedOut, sessionEnd>>

\* a refresh loop that keeps going after a failed exchange
RefreshFailRetries(k) ==
    /\ loop[k] = "exchanging"
    /\ ~loopCancel[k]
    /\ loop' = [loop EXCEPT ![k] = "sleeping"]
    /\ loggedOut' = Min(loggedOut + 1, 2)
    /\ subscriberSaw' = AuthSnapshot
    /\ sessionEnd' = "refresh_failed"
    /\ UNCHANGED <<sessionVars, logoutEnd, accessToken, refreshToken,
                   refreshTask, loopCancel, authenticated, logins, logouts>>

\* the refresh request raises: except Exception: user_logged_out is
\* emitted (its slots read the state as it is before the clearing), then
\* _clear_auth_state(), and the task ends
RefreshFail(k) ==
    /\ loop[k] = "exchanging"
    /\ ~loopCancel[k]
    /\ loggedOut' = Min(loggedOut + 1, 2)
    /\ subscriberSaw' = AuthSnapshot
    /\ ClearAuthState(k)
    /\ loop' = [loop EXCEPT ![k] = "done"]
    /\ sessionEnd' = "refresh_failed"
    /\ UNCHANGED <<sessionVars, logoutEnd, logins, logouts>>

\* the CancelledError is thrown into the task at its await (the sleep or
\* the request): except asyncio.CancelledError: return
LoopCancelled(k) ==
    /\ LoopAlive(k)
    /\ loopCancel[k]
    /\ loop' = [loop EXCEPT ![k] = "done"]
    /\ loopCancel' = [loopCancel EXCEPT ![k] = FALSE]
    /\ UNCHANGED <<sessionVars, logoutEnd, subscriberSaw, accessToken,
                   refreshToken, refreshTask, authenticated, logins, logouts,
                   loggedOut, sessionEnd>>

\* ========================================================= specification
Init ==
    /\ gen = GenerationState
    /\ generationStatus = "Idle"
    /\ lastOp = "none"
    /\ grpcConnected = FALSE
    /\ call = [c \in Calls |-> "idle"]
    /\ outcome = "none"
    /\ cancelledJob = FALSE
    /\ lateCompleted = FALSE
    /\ running = FALSE
    /\ task = 0
    /\ ws = 0
    /\ connOpen = [t \in Tasks |-> FALSE]
    /\ pc = [t \in Tasks |-> "none"]
    /\ cancelReq = [t \in Tasks |-> FALSE]
    /\ timer = [t \in Tasks |-> 0]
    /\ sinceEnd = RECONNECT_BACKOFF
    /\ lastEnd = "none"
    /\ discEvents = 0
    /\ attempts = 0
    /\ attemptGap = RECONNECT_BACKOFF
    /\ signal = "none"
    /\ heartbeat = FALSE
    /\ leaked = 0
    /\ lastPing = "none"
    /\ accessToken = "None"
    /\ refreshToken = "None"
    /\ refreshTask = 0
    /\ loop = [k \in Loops |-> "none"]
    /\ loopCancel = [k \in Loops |-> FALSE]
    /\ authenticated = FALSE
    /\ logins = 0
    /\ logouts = 0
    /\ loggedOut = 0
    /\ sessionEnd = "none"
    /\ logoutEnd = "none"
    /\ subscriberSaw = SignedOut
    /\ lastEvent = GenerationState
    /\ backend = BackendState
    /\ mutex = 0
    /\ thr = [h \in Threads |-> "idle"]
    /\ thrKw = [h \in Threads |-> KwNone]
    /\ thrRec = [h \in Threads |-> GenerationState]

GenNext ==
    \/ \E c \in Calls : Generate(c)
    \/ \E c \in Calls : ChannelReady(c)
    \/ \E c \in Calls, v \in FrameValues : StreamProgress(c, v)
    \/ \E c \in Calls, e \in RpcErrors : StreamError(c, e)
    \/ \E c \in Calls : StreamEnd(c)
    \/ \E c \in Calls : CancelGenerate(c)

FrameNext ==
    \/ \E t \in Tasks, v \in FrameValues : WsProgress(t, v)
    \/ \E t \in Tasks, e \in WsErrors : WsError(t, e)
    \/ \E t \in Tasks : WsCompleted(t)
    \/ \E t \in Tasks : WsInvalidJson(t)

WsNext ==
    \/ Start
    \/ Stop
    \/ \E t \in Tasks : TaskStart(t)
    \/ \E t \in Tasks : ConnectOk(t)
    \/ \E t \in Tasks : ConnectFail(t)
    \/ \E t \in Tasks : ReadFail(t)
    \/ \E t \in Tasks : HandlerFail(t)
    \/ \E t \in Tasks : ServerClose(t)
    \/ \E t \in Tasks : CloseDone(t)
    \/ \E t \in Tasks : BackoffDone(t)
    \/ \E t \in Tasks : TaskCancelled(t)
    \/ \E t \in Tasks : WsInvalidJson(t)
    \/ Tick

\* the heartbeat tasks
HbNext ==
    \/ Heartbeat
    \/ LeakedHeartbeat

\* the part of the channel's life that frames depend on: none arrives
\* before start() has connected.  (Losing the connection only stops the
\* frames; the whole life of the channel is WsNext.)
ChannelNext ==
    \/ Start
    \/ \E t \in Tasks : TaskStart(t)
    \/ \E t \in Tasks : ConnectOk(t)

\* the generation job: generate() coroutines, and the frames of the
\* realtime channel while it is connected
Next == GenNext \/ FrameNext \/ ChannelNext

Spec == Init /\ [][Next]_vars

\* the realtime channel alone: start(), stop(), the _run tasks and time
SpecWs == Init /\ [][WsNext]_vars

\* the realtime channel with its heartbeat tasks
SpecHb == Init /\ [][WsNext \/ HbNext]_vars

\* the AuthBridge: login(), logout() and the _refresh_loop tasks
AuthNext ==
    \/ Login
    \/ \E rt \in LoginRefreshTokens : LoginOk(rt)
    \/ LoginFail
    \/ Logout
    \/ \E ok \in BOOLEAN : LogoutDone(ok)
    \/ \E k \in Loops : LoopWake(k)
    \/ \E k \in Loops : RefreshOk(k)
    \/ \E k \in Loops : RefreshFail(k)
    \/ \E k \in Loops : LoopCancelled(k)

SpecAuth == Init /\ [][AuthNext]_vars

\* the realtime channel loses its connection and comes back
DropNext ==
    \/ \E t \in Tasks : ReadFail(t)
    \/ \E t \in Tasks : ServerClose(t)
    \/ \E t \in Tasks : CloseDone(t)
    \/ \E t \in Tasks : BackoffDone(t)
    \/ Tick

\* the generation job over a realtime channel that may drop
SpecDrop == Init /\ [][Next \/ DropNext]_vars

\* threads that call the high-level generation actions of the Store
StoreNext ==
    \/ \E h \in Threads, kw \in ThreadCalls : Call(h, kw)
    \/ \E h \in Threads : Acquire(h)
    \/ \E h \in Threads : Write(h)
    \/ \E h \in Threads : EmitChanged(h)
    \/ \E h \in Threads : EmitState(h)

SpecStore == Init /\ [][StoreNext]_vars

\* the event loop runs every task that is ready, and time passes
SpecWsFair ==
    /\ SpecWs
    /\ WF_vars(Tick)
    /\ \A t \in Tasks : WF_vars(BackoffDone(t))
    /\ \A t \in Tasks : WF_vars(TaskCancelled(t))

\* the realtime channel of a client that is started and never stopped, and
\* the frames it receives
RunNext ==
    \/ Start
    \/ \E t \in Tasks : TaskStart(t)
    \/ \E t \in Tasks : ConnectOk(t)
    \/ \E t \in Tasks : ConnectFail(t)
    \/ \E t \in Tasks : ReadFail(t)
    \/ \E t \in Tasks : HandlerFail(t)
    \/ \E t \in Tasks : ServerClose(t)
    \/ \E t \in Tasks : CloseDone(t)
    \/ \E t \in Tasks : BackoffDone(t)
    \/ FrameNext
    \/ Tick

\* the event loop runs the _run task whenever an await of it has
\* returned (the sleep, the close of the socket), and time passes
SpecRunFair ==
    /\ Init /\ [][RunNext]_vars
    /\ WF_vars(Tick)
    /\ \A t \in Tasks : WF_vars(BackoffDone(t))
    /\ \A t \in Tasks : WF_vars(CloseDone(t))

\* ================================================================ claims
\* C1: cancelling an in-flight generate() leaves the Store in the Cancelled
\* terminal state (so not in progress), and a completed frame delivered for
\* that job afterwards does not make the Store Completed.
C1_CancelledStaysCancelled ==
    /\ cancelledJob => ~gen.in_progress
    /\ lateCompleted => generationStatus # "Completed"

\* C2: a generate() call made while another call is streaming fails at
\* once and leaves the generation record of the Store as it was.
C2_SecondCallRejected ==
    [][\A c \in Calls :
         (Generate(c) /\ \E d \in Calls : d # c /\ call[d] = "streaming")
           => (call'[c] = "idle" /\ outcome' = "raised" /\ gen' = gen)]_vars

\* C3: a progress message, from either transport, that arrives while the
\* generation status is not Streaming leaves the Store's progress unchanged.
C3_ProgressIgnoredUnlessStreaming ==
    [][(/\ generationStatus # "Streaming"
        /\ \/ \E t \in Tasks, v \in FrameValues : WsProgress(t, v)
           \/ \E c \in Calls, v \in FrameValues : StreamProgress(c, v))
         => gen' = gen]_vars

\* C4: finish_generation is idempotent: from every state, applying it twice
\* gives the record that applying it once gives, not in progress and with
\* progress 1.0; and a finish applied right after a finish changes nothing.
C4_FinishIdempotent ==
    /\ [](/\ finish_generation(finish_generation(gen)) = finish_generation(gen)
          /\ ~finish_generation(gen).in_progress
          /\ finish_generation(gen).progress = PROGRESS_DONE)
    /\ [][(lastOp \in {"finish", "finish2"} /\ lastOp' = "finish2")
            => (/\ gen' = gen
                /\ generationStatus' = "Completed"
                /\ gen'.progress = PROGRESS_DONE)]_vars

\* C4 witness: finish_generation has just been applied twice in succession
C4_Witness ==
    /\ lastOp = "finish2"
    /\ generationStatus = "Completed"
    /\ gen.progress = PROGRESS_DONE

\* C5: whenever the generation status is Completed, progress is 1.0.
C5_CompletedHasFullProgress ==
    generationStatus = "Completed" => gen.progress = PROGRESS_DONE

\* C6: whenever the generation status is Idle, Failed or Cancelled, no
\* generate() call is consuming its stream.
C6_TerminalHasNoActiveStream ==
    generationStatus \in {"Idle", "Failed", "Cancelled"}
      => \A c \in Calls : call[c] # "streaming"

\* C7: after a read failure of a running client exactly one
\* backend_disconnected is emitted, no connect attempt precedes it, at most
\* one attempt follows and it starts no earlier than 2 seconds after the
\* failure; and unless stop() or another end of connection intervenes, that
\* attempt is made.
C7_ReadFailureThenBackoff ==
    /\ [](lastEnd = "readfail" =>
            /\ discEvents = 1
            /\ attempts <= 1
            /\ (attempts = 1 => attemptGap >= RECONNECT_BACKOFF)
            /\ \A t \in Tasks :
                 (pc[t] = "backoff" /\ ~cancelReq[t]) => attempts = 0)
    /\ ((lastEnd = "readfail" /\ attempts = 0)
          ~> (attempts = 1 \/ lastEnd # "readfail"))

\* C7 witness: the attempt that follows a read failure has started
C7_Witness ==
    /\ lastEnd = "readfail"
    /\ attempts = 1
    /\ discEvents = 1
    /\ \E t \in Tasks : pc[t] = "connecting" /\ ~cancelReq[t]

\* C8: however an established connection ended while the client runs (read
\* exception, handler exception, the server closing the socket), the next
\* connect attempt starts no earlier than 2 seconds after that end.
C8_BackoffIsHardFloor ==
    (lastEnd \in {"readfail", "handlerfail", "close"} /\ attempts >= 1)
      => attemptGap >= RECONNECT_BACKOFF

\* C9: at most one _run task runs its loop at any time, so at most one
\* connect attempt is in progress, whatever start(), stop() and failures do.
C9_OneLoopAtATime ==
    /\ Cardinality({t \in Tasks : Active(t)}) <= 1
    /\ \A t \in Tasks : Active(t) => (running /\ task = t)

\* C9 witness: start() right after stop(): the old task has not finished
\* yet and the new task is connecting
C9_Witness ==
    \E t, u \in Tasks :
        /\ t # u
        /\ Alive(t) /\ cancelReq[t]
        /\ pc[u] = "connecting" /\ ~cancelReq[u]

\* C10: after stop(), and until start() is called again, _running is false,
\* a backend_disconnected event has been emitted for the stop, and no
\* connect attempt is made.
C10_StopIsTerminalAndEmits ==
    (lastEnd = "stop" /\ ~running /\ task # 0) =>
        /\ discEvents >= 1
        /\ attempts = 0
        /\ \A t \in Tasks : ~Active(t)

\* the client is Connected: a _run task reads frames from an open connection
Connected == \E t \in Tasks : pc[t] = "connected" /\ ~cancelReq[t]

\* C11: the heartbeat never outlives its connection: no heartbeat task is
\* left behind by a connection that ended (read failure or stop()), a
\* heartbeat task exists only while the client is Connected, and no
\* heartbeat created for an earlier connection pings a later one.
C11_HeartbeatEndsWithConnection ==
    /\ leaked = 0
    /\ heartbeat => Connected
    /\ lastPing # "old"

\* C12: a malformed frame (text that is no JSON, JSON that is no object, a
\* progress frame whose value is no number) is dropped: the _run task stays
\* where it is with its connection open, no backend_disconnected is
\* emitted, no backoff starts, and the generation record is unchanged.
C12_MalformedFrameDropped ==
    [][(\E t \in Tasks : WsInvalidJson(t) \/ HandlerFail(t))
         => (/\ pc' = pc
             /\ connOpen' = connOpen
             /\ discEvents' = discEvents
             /\ lastEnd' = lastEnd
             /\ gen' = gen)]_vars

\* C13: an exception other than cancellation raised while generate()
\* consumes its stream leaves the Store Failed, not in progress, with
\* last_error the text of the exception; generation_failed is emitted and
\* the exception reaches the caller.
C13_StreamExceptionFails ==
    [][\A c \in Calls, e \in RpcErrors :
         StreamError(c, e)
           => (/\ generationStatus' = "Failed"
               /\ ~gen'.in_progress
               /\ gen'.last_error = e
               /\ signal' = "failed"
               /\ outcome' = "raised"
               /\ call'[c] = "idle")]_vars

\* C13 witness: a generate() has just failed on its stream
C13_Witness ==
    /\ outcome = "raised"
    /\ signal = "failed"
    /\ lastOp = "fail"
    /\ gen.last_error \in RpcErrors
    /\ ~gen.in_progress

\* C14: a generate() cancelled while it consumes its stream hands the
\* cancellation to its caller and emits generation_cancelled, not
\* generation_failed; the Store is left as it was (last_error not set, not
\* made Failed).
C14_CancelWhileStreaming ==
    [][\A c \in Calls :
         (CancelGenerate(c) /\ call[c] = "streaming")
           => (/\ outcome' = "cancelled"
               /\ signal' = "cancelled"
               /\ gen' = gen
               /\ generationStatus' = generationStatus)]_vars

\* C14 witness: a streaming generate() has just been cancelled
C14_Witness ==
    /\ outcome = "cancelled"
    /\ signal = "cancelled"
    /\ cancelledJob

\* C14 as stated, for a generate() cancelled at any point: it hands the
\* cancellation to its caller, emits generation_cancelled and leaves the
\* Store as it was.
C14_CancelAnywhere ==
    [][\A c \in Calls :
         CancelGenerate(c)
           => (/\ outcome' = "cancelled"
               /\ signal' = "cancelled"
               /\ gen' = gen
               /\ generationStatus' = generationStatus)]_vars

\* the snapshot of a finished job
Finished(g, status) ==
    /\ status = "Completed"
    /\ ~g.in_progress
    /\ g.progress = PROGRESS_DONE

\* C15: a generate() that consumes its whole stream leaves the Store
\* Completed with progress 1.0, not in progress, and returns the result; a
\* completed frame on the realtime channel (after a progress frame 0.4 or
\* any other) leaves the same snapshot.
C15_WholeStreamCompletes ==
    [][/\ \A c \in Calls :
            StreamEnd(c)
              => (/\ Finished(gen', generationStatus')
                  /\ outcome' = "returned"
                  /\ signal' = "finished")
       /\ \A t \in Tasks :
            WsCompleted(t)
              => (/\ Finished(gen', generationStatus')
                  /\ gen' = finish_generation(gen)
                  /\ signal' = "finished")]_vars

\* C15 witness: a generate() has just returned after its whole stream
C15_Witness ==
    /\ outcome = "returned"
    /\ signal = "finished"
    /\ lastOp = "finish"
    /\ Finished(gen, generationStatus)
    /\ gen.last_error = NoError

\* C16: an error message is terminal on both transports: the Store becomes
\* Failed with last_error the message of the backend, and it stays Failed
\* until a generate() call starts a new generation.
C16_ErrorIsTerminal ==
    [][/\ \A e \in RpcErrors \cup WsErrors :
            ((\E c \in Calls : StreamError(c, e)) \/ (\E t \in Tasks : WsError(t, e)))
              => (/\ generationStatus' = "Failed"
                  /\ ~gen'.in_progress
                  /\ gen'.last_error = e)
       /\ (generationStatus = "Failed" /\ generationStatus' # "Failed")
              => \E c \in Calls : Generate(c) \/ ChannelReady(c)]_vars

\* C17: once the generation status is Completed, Failed or Cancelled, no
\* progress, error or completed message of either transport changes the
\* generation record or the status.
C17_TerminalIsAbsorbing ==
    [][(/\ generationStatus \in {"Completed", "Failed", "Cancelled"}
        /\ \/ \E t \in Tasks, v \in FrameValues : WsProgress(t, v)
           \/ \E t \in Tasks, e \in WsErrors : WsError(t, e)
           \/ \E t \in Tasks : WsCompleted(t)
           \/ \E c \in Calls, v \in FrameValues : StreamProgress(c, v)
           \/ \E c \in Calls, e \in RpcErrors : StreamError(c, e))
         => (gen' = gen /\ generationStatus' = generationStatus)]_vars

\* C18: a failed exchange ends the refresh loop for good: the step that
\* handles it emits user_logged_out exactly once, ends the task, clears
\* both tokens and _refresh_task and makes the user unauthenticated; and
\* as long as nothing else ends or starts a session, exactly that one event
\* has been emitted, no refresh loop runs and no exchange is attempted.
C18_RefreshFailureIsTerminal ==
    /\ [](sessionEnd = "refresh_failed" =>
            /\ loggedOut = 1
            /\ refreshTask = 0
            /\ ~authenticated
            /\ accessToken = "None"
            /\ refreshToken = "None"
            /\ \A k \in Loops : ~LoopActive(k))
    /\ [][/\ \A k \in Loops :
               RefreshFail(k)
                 => (/\ loggedOut' = loggedOut + 1
                     /\ loop'[k] = "done"
                     /\ refreshTask' = 0
                     /\ ~authenticated')
          /\ (sessionEnd = "refresh_failed" /\ sessionEnd' = "refresh_failed")
                 => ~ \E k \in Loops :
                        \/ RefreshOk(k)
                        \/ RefreshFail(k)
                        \/ (LoopWake(k) /\ loop'[k] = "exchanging")]_vars

\* C18 witness: an exchange has failed and its task has ended
C18_Witness ==
    /\ sessionEnd = "refresh_failed"
    /\ loggedOut = 1
    /\ \E k \in Loops : loop[k] = "done"
    /\ ~authenticated

\* C19: a refresh loop that wakes with no refresh token ends without
\* sending a refresh request and without emitting user_logged_out, and
\* leaves the tokens and the user as they were.
C19_NoRefreshTokenNoExchange ==
    [][\A k \in Loops :
         (LoopWake(k) /\ refreshToken = "None")
           => (/\ loop'[k] = "done"
               /\ accessToken' = accessToken
               /\ refreshToken' = refreshToken
               /\ authenticated' = authenticated
               /\ loggedOut' = loggedOut
               /\ sessionEnd' = sessionEnd)]_vars

\* C19 witness: after a login without refresh token the loop has ended by
\* itself (_refresh_task still names it) and the session is as the login
\* left it
C19_Witness ==
    \E k \in Loops :
        /\ refreshTask = k
        /\ loop[k] = "done"
        /\ refreshToken = "None"
        /\ accessToken = "login"
        /\ authenticated
        /\ loggedOut = 0

\* C20: once logout() has completed, and until a login response is
\* applied, no refresh loop runs (a loop suspended in its sleep or in its
\* request has its cancellation pending), no exchange is sent or applied,
\* and the access token stays None.
C20_LogoutStopsRefresh ==
    /\ [](sessionEnd = "logout" =>
            /\ accessToken = "None"
            /\ \A k \in Loops : ~LoopActive(k))
    /\ [][(sessionEnd = "logout" /\ sessionEnd' = "logout")
            => (/\ accessToken' = "None"
                /\ ~ \E k \in Loops :
                       \/ RefreshOk(k)
                       \/ (LoopWake(k) /\ loop'[k] = "exchanging"))]_vars

\* C20 witness: logout() has completed while an exchange was in flight
C20_Witness ==
    /\ sessionEnd = "logout"
    /\ \E k \in Loops : loop[k] = "exchanging" /\ loopCancel[k]

\* C21: mutations of the generation record exclude each other: at most one
\* thread is between its read and its write, and the record it read is
\* still the record of the Store, so every write replaces
\* exactly the fields of its call in the record as it is then; no update
\* of another call is lost.
C21_MutationsAreExclusive ==
    /\ [](/\ Cardinality({h \in Threads : thr[h] = "write"}) <= 1
          /\ \A h \in Threads : thr[h] = "write" => thrRec[h] = gen)
    /\ [][\A h \in Threads :
            Write(h) => gen' = Merge(gen, thrKw[h])]_vars

\* C21 witness: update_generation_progress and fail_generation were called
\* at the same time from two threads, both have written, and the record
\* holds the progress of the one and the error of the other
C21_Witness ==
    \E h, j \in Threads :
        /\ h # j
        /\ thr[h] \in {"emit", "emit2"} /\ thrKw[h].op = "progress"
        /\ thr[j] \in {"emit", "emit2"} /\ thrKw[j].op = "fail"
        /\ gen.progress = thrKw[h].progress
        /\ gen.last_error = thrKw[j].last_error
        /\ ~gen.in_progress

\* C28: every change event of a mutation carries the record that this
\* mutation wrote, also when two threads mutate at the same time; and when
\* no mutation is under way the last event emitted carried the record the
\* Store holds.
C28_EventCarriesOwnSnapshot ==
    /\ []((\A h \in Threads : thr[h] = "idle") => lastEvent = gen)
    /\ [][\A h \in Threads :
            (EmitChanged(h) \/ EmitState(h)) => lastEvent' = thrRec[h]]_vars

\* C22: whatever values the progress messages carry, the progress of the
\* Store stays within 0.0 .. 1.0, and a progress message handled while the
\* generation status is Streaming never lowers it.
C22_ProgressBoundedMonotone ==
    /\ [](gen.progress >= PROGRESS_ZERO /\ gen.progress <= PROGRESS_DONE)
    /\ [][(/\ generationStatus = "Streaming"
           /\ \/ \E t \in Tasks, v \in FrameValues : WsProgress(t, v)
              \/ \E c \in Calls, v \in FrameValues : StreamProgress(c, v))
            => gen'.progress >= gen.progress]_vars

\* C23: last_error is set only while the generation status is Failed.
C23_ErrorOnlyWhenFailed ==
    generationStatus # "Failed" => gen.last_error = NoError

\* C25: the connection status of the Store follows the realtime channel:
\* it is connected while the channel is Connected, and not connected
\* while it is not (after a read failure or stop()).
C25_StoreTracksConnection ==
    backend.connected <=> Connected

\* C27: when the realtime channel loses its connection (the read loop
\* raises, or the socket is closed by the server) the generation record
\* and the generation status stay as they are and no generation signal is
\* emitted.
C27_TransportFailureSparesGeneration ==
    [][\A t \in Tasks :
         (ReadFail(t) \/ ServerClose(t))
           => (/\ gen' = gen
               /\ generationStatus' = generationStatus
               /\ signal' = signal)]_vars

\* C27 witness: the connection was lost by a read failure while a job was
\* streaming with progress 0.4, and the job still is
C27_Witness ==
    /\ lastEnd = "readfail"
    /\ discEvents = 1
    /\ generationStatus = "Streaming"
    /\ gen.in_progress
    /\ gen.progress = 4
    /\ signal = "progress"

\* C24: when stop() is never called, every end of a connection and every
\* failed connect attempt of the running client is followed by another
\* connect attempt, however many have failed before.
C24_ReconnectUnbounded ==
    (/\ running
     /\ lastEnd \in {"readfail", "handlerfail", "connectfail", "close"}
     /\ attempts = 0)
      ~> (running /\ attempts >= 1)

\* C24 witness: a connect attempt failed, and the attempt that follows the
\* backoff has started
C24_Witness ==
    /\ running
    /\ lastEnd = "connectfail"
    /\ attempts = 1
    /\ \E t \in Tasks : pc[t] = "connecting" /\ ~cancelReq[t]

\* C26: a logout() that ends, whether its request to the backend succeeded
\* or raised, has cleared both tokens and _refresh_task, has stopped the
\* refresh loop (no loop is left that is not cancelled), has made the user
\* unauthenticated, has emitted user_logged_out exactly once and has
\* returned without raising.
C26_LogoutIsBestEffort ==
    [][logouts' < logouts
         => (/\ accessToken' = "None"
             /\ refreshToken' = "None"
             /\ refreshTask' = 0
             /\ \A k \in Loops :
                  ~(loop'[k] \in {"sleeping", "exchanging"} /\ ~loopCancel'[k])
             /\ ~authenticated'
             /\ loggedOut' = Min(loggedOut + 1, 2)
             /\ sessionEnd' = "logout"
             /\ logoutEnd' \in {"ok", "swallowed"})]_vars

\* C26 witness: the request of a logout() raised while the refresh loop of
\* a signed-in user slept; the session is cleared, the loop is cancelled
\* and one user_logged_out was emitted
C26_Witness ==
    /\ logoutEnd = "swallowed"
    /\ sessionEnd = "logout"
    /\ accessToken = "None"
    /\ refreshToken = "None"
    /\ ~authenticated
    /\ loggedOut = 1
    /\ \E k \in Loops : LoopAlive(k) /\ loopCancel[k]

\* C29: while the refresh token of a login response is held (no logout and
\* no failed exchange has cleared it), a refresh loop is running.
C29_TokenHasRefreshLoop ==
    refreshToken = "token" => \E k \in Loops : LoopActive(k)

\* C30: the slots of user_logged_out, whenever it was emitted, read an
\* unauthenticated user and no tokens.
C30_LoggedOutSeesCleared ==
    subscriberSaw = SignedOut

====
